---- MODULE Spec2Model ----
(***************************************************************************)
(* Model of laz_utils.h: load_file (two-phase whole-file loader) and the   *)
(* FNV-1a hash functions (32 and 64 bit, buffer and C-string variants).    *)
(*                                                                         *)
(* load_file is modelled one library call at a time (fopen, fseek, ftell,  *)
(* fseek, fread, fclose); every library call's outcome is chosen by the    *)
(* environment.  The hash functions are operators over byte sequences;     *)
(* machine words are little-endian sequences of 8-bit limbs, so that the   *)
(* wrap-around of uint32_t / uint64_t multiplication is exact.             *)
(***************************************************************************)
EXTENDS Integers, Sequences, FiniteSets, TLC

(* ---------------------------- bounds ---------------------------------- *)
\* longest file content considered
MaxLen == 3
\* longest hash input considered
MaxHashLen == 3

\* byte values used for file contents and hash inputs
FileBytes == {0, 97, 255}
HashBytes == {0, 97, 98, 99, 255}

\* capacity of the caller's buffer: the queried size plus one spare cell
BufCap == MaxLen + 2
\* content of a buffer cell load_file never stored to
Untouched == -1

RECURSIVE SeqsUpTo(_, _)
SeqsUpTo(S, n) ==
    IF n = 0 THEN {<<>>}
    ELSE LET shorter == SeqsUpTo(S, n - 1)
         IN  shorter \cup {Append(s, b) : s \in {t \in shorter : Len(t) = n - 1}, b \in S}

VARIABLES
    pc,            \* position inside load_file
    exists,        \* the path names an existing file
    fileData,      \* the file's bytes
    out,           \* "NULL" or "buf": the out argument
    outbuf,        \* the memory out points to
    writes,        \* indices of outbuf stored to during the call
    file,          \* FILE *file: "null", "open" or "closed"
    filepos,       \* the stream's position indicator
    file_size,     \* long int file_size
    bytes_read,    \* size_t bytes_read
    ret,           \* the value returned
    stderr,        \* diagnostics written by errorf
    calls,         \* the library calls made so far, with their outcomes
    text,          \* hash input
    r32buf, r32str, r64buf, r64str   \* hash results (<<>> = not computed)

loadVars == <<pc, exists, fileData, out, outbuf, writes, file, filepos,
              file_size, bytes_read, ret, stderr, calls>>
hashVars == <<text, r32buf, r32str, r64buf, r64str>>
vars == <<loadVars, hashVars>>

ErrorMsg == "Error: unable to read file"
WarningMsg == "Warning: unable to close file"

\* one library call: its name, whether it succeeded, the value it returned
Lib(fn, ok, res) == [fn |-> fn, ok |-> ok, res |-> res]

(* ------------------------------ load_file ----------------------------- *)

LoadIdle ==
    /\ pc = "idle"
    /\ out = "NULL"
    /\ outbuf = [i \in 0..(BufCap - 1) |-> Untouched]
    /\ writes = {}
    /\ file = "null"
    /\ filepos = 0
    /\ file_size = 0
    /\ bytes_read = 0
    /\ ret = 0
    /\ stderr = <<>>
    /\ calls = <<>>

HashIdle ==
    /\ r32buf = <<>>
    /\ r32str = <<>>
    /\ r64buf = <<>>
    /\ r64str = <<>>

Init ==
    /\ exists \in BOOLEAN
    /\ fileData \in (IF exists THEN SeqsUpTo(FileBytes, MaxLen) ELSE {<<>>})
    /\ LoadIdle
    /\ text = <<>>
    /\ HashIdle

\* the caller invokes load_file(path, out)
Call ==
    /\ pc = "idle"
    /\ out' \in {"NULL", "buf"}
    /\ pc' = "open"
    /\ UNCHANGED <<exists, fileData, outbuf, writes, file, filepos, file_size,
                   bytes_read, ret, stderr, calls>>
    /\ UNCHANGED hashVars

\* (void)fclose(file): the stream is gone whether or not fclose succeeds
Fclose(cok) == <<Lib("fclose", cok, IF cok THEN 0 ELSE -1)>>

\* if (file == NULL)
FileIsNullUnchecked(ok) == FALSE
FileIsNull(ok) == ~ok

\* fopen(path, "rb") and the NULL check
Open ==
    /\ pc = "open"
    /\ \E ok \in (IF exists THEN BOOLEAN ELSE {FALSE}) :
         /\ calls' = Append(calls, Lib("fopen", ok, 0))
         /\ IF FileIsNull(ok)
            THEN /\ stderr' = Append(stderr, ErrorMsg)
                 /\ ret' = -1
                 /\ pc' = "done"
                 /\ UNCHANGED file
            ELSE /\ file' = IF ok THEN "open" ELSE "null"
                 /\ pc' = "seek_end"
                 /\ UNCHANGED <<stderr, ret>>
    /\ UNCHANGED <<exists, fileData, out, outbuf, writes, filepos, file_size,
                   bytes_read>>
    /\ UNCHANGED hashVars

\* fseek(file, 0, SEEK_END) and its failure branch
SeekEnd ==
    /\ pc = "seek_end"
    /\ \E ok \in BOOLEAN, cok \in BOOLEAN :
         IF ok
         THEN /\ calls' = Append(calls, Lib("fseek_end", TRUE, 0))
              /\ filepos' = Len(fileData)
              /\ pc' = "tell"
              /\ UNCHANGED <<stderr, ret, file>>
         ELSE /\ calls' = Append(calls, Lib("fseek_end", FALSE, -1)) \o Fclose(cok)
              /\ stderr' = Append(stderr, ErrorMsg)
              /\ file' = "closed"
              /\ ret' = -1
              /\ pc' = "done"
              /\ UNCHANGED filepos
    /\ UNCHANGED <<exists, fileData, out, outbuf, writes, file_size, bytes_read>>
    /\ UNCHANGED hashVars

\* if (file_size == 0)
IsEmptyUnchecked(size) == FALSE
IsEmpty(size) == size = 0

\* return file_size + 1;
QuerySizeNoTerminator(size) == size
QuerySize(size) == size + 1

\* file_size = ftell(file) and the three branches that follow it:
\* empty file, ftell error, size query (out == NULL)
Tell ==
    /\ pc = "tell"
    /\ \E size \in {filepos, -1}, cok \in BOOLEAN :
         /\ file_size' = size
         /\ IF IsEmpty(size)
            THEN /\ calls' = Append(calls, Lib("ftell", TRUE, size)) \o Fclose(cok)
                 /\ file' = "closed"
                 /\ IF out # "NULL"
                    THEN /\ outbuf' = [outbuf EXCEPT ![0] = 0]
                         /\ writes' = writes \cup {0}
                    ELSE UNCHANGED <<outbuf, writes>>
                 /\ ret' = 1
                 /\ pc' = "done"
                 /\ UNCHANGED stderr
            ELSE IF size < 0
            THEN /\ calls' = Append(calls, Lib("ftell", FALSE, size)) \o Fclose(cok)
                 /\ stderr' = Append(stderr, ErrorMsg)
                 /\ file' = "closed"
                 /\ ret' = -1
                 /\ pc' = "done"
                 /\ UNCHANGED <<outbuf, writes>>
            ELSE IF out = "NULL"
            THEN /\ calls' = Append(calls, Lib("ftell", TRUE, size)) \o Fclose(cok)
                 /\ file' = "closed"
                 /\ ret' = QuerySize(size)
                 /\ pc' = "done"
                 /\ UNCHANGED <<outbuf, writes, stderr>>
            ELSE /\ calls' = Append(calls, Lib("ftell", TRUE, size))
                 /\ pc' = "seek_set"
                 /\ UNCHANGED <<file, outbuf, writes, ret, stderr>>
    /\ UNCHANGED <<exists, fileData, out, filepos, bytes_read>>
    /\ UNCHANGED hashVars

\* SeekSet with the fclose of its failure branch forgotten
SeekSetLeak ==
    /\ pc = "seek_set"
    /\ \E ok \in BOOLEAN :
         IF ok
         THEN /\ calls' = Append(calls, Lib("fseek_set", TRUE, 0))
              /\ filepos' = 0
              /\ pc' = "read"
              /\ UNCHANGED <<stderr, ret, file>>
         ELSE /\ calls' = Append(calls, Lib("fseek_set", FALSE, -1))
              /\ stderr' = Append(stderr, ErrorMsg)
              /\ ret' = -1
              /\ pc' = "done"
              /\ UNCHANGED <<filepos, file>>
    /\ UNCHANGED <<exists, fileData, out, outbuf, writes, file_size, bytes_read>>
    /\ UNCHANGED hashVars

\* fseek(file, 0, SEEK_SET) and its failure branch
SeekSet ==
    /\ pc = "seek_set"
    /\ \E ok \in BOOLEAN, cok \in BOOLEAN :
         IF ok
         THEN /\ calls' = Append(calls, Lib("fseek_set", TRUE, 0))
              /\ filepos' = 0
              /\ pc' = "read"
              /\ UNCHANGED <<stderr, ret, file>>
         ELSE /\ calls' = Append(calls, Lib("fseek_set", FALSE, -1)) \o Fclose(cok)
              /\ stderr' = Append(stderr, ErrorMsg)
              /\ file' = "closed"
              /\ ret' = -1
              /\ pc' = "done"
              /\ UNCHANGED filepos
    /\ UNCHANGED <<exists, fileData, out, outbuf, writes, file_size, bytes_read>>
    /\ UNCHANGED hashVars

\* if (bytes_read != (size_t)file_size)
ShortReadTolerated(n, size) == FALSE
ShortRead(n, size) == n # size

\* bytes_read = fread(out, 1, file_size, file) and the short-read branch;
\* fread stores the n bytes it delivers at out[0 .. n-1]
Read ==
    /\ pc = "read"
    /\ \E n \in 0..file_size, cok \in BOOLEAN :
         /\ bytes_read' = n
         /\ outbuf' = [i \in 0..(BufCap - 1) |->
                          IF i < n THEN fileData[filepos + i + 1] ELSE outbuf[i]]
         /\ writes' = writes \cup 0..(n - 1)
         /\ filepos' = filepos + n
         /\ IF ShortRead(n, file_size)
            THEN /\ calls' = Append(calls, Lib("fread", n = file_size, n)) \o Fclose(cok)
                 /\ stderr' = Append(stderr, ErrorMsg)
                 /\ file' = "closed"
                 /\ ret' = -1
                 /\ pc' = "done"
            ELSE /\ calls' = Append(calls, Lib("fread", n = file_size, n))
                 /\ pc' = "finish"
                 /\ UNCHANGED <<stderr, file, ret>>
    /\ UNCHANGED <<exists, fileData, out, file_size>>
    /\ UNCHANGED hashVars

\* out[bytes_read] = '\0';
TerminatedOffByOne(buf, n) == [buf EXCEPT ![n + 1] = 0]
Terminated(buf, n) == [buf EXCEPT ![n] = 0]

\* if (fclose(file) != 0) errorf("Warning: unable to close file %s\n", path);
CloseWarningDropped(cok) == <<>>
CloseWarning(cok) == IF cok THEN <<>> ELSE <<WarningMsg>>

\* Finish with a failed fclose turned into a failure of the call
FinishCloseFatal ==
    /\ pc = "finish"
    /\ outbuf' = Terminated(outbuf, bytes_read)
    /\ writes' = writes \cup {bytes_read}
    /\ \E cok \in BOOLEAN :
         /\ calls' = calls \o Fclose(cok)
         /\ file' = "closed"
         /\ stderr' = stderr \o CloseWarning(cok)
         /\ ret' = IF cok THEN bytes_read + 1 ELSE -1
    /\ pc' = "done"
    /\ UNCHANGED <<exists, fileData, out, filepos, file_size, bytes_read>>
    /\ UNCHANGED hashVars

\* out[bytes_read] = '\0', the checked fclose, and the final return
Finish ==
    /\ pc = "finish"
    /\ outbuf' = Terminated(outbuf, bytes_read)
    /\ writes' = writes \cup {bytes_read}
    /\ \E cok \in BOOLEAN :
         /\ calls' = calls \o Fclose(cok)
         /\ file' = "closed"
         /\ stderr' = stderr \o CloseWarning(cok)
    /\ ret' = bytes_read + 1
    /\ pc' = "done"
    /\ UNCHANGED <<exists, fileData, out, filepos, file_size, bytes_read>>
    /\ UNCHANGED hashVars

Next == Call \/ Open \/ SeekEnd \/ Tell \/ SeekSet \/ Read \/ Finish

Spec == Init /\ [][Next]_vars

(* ------------------------------ FNV-1a -------------------------------- *)
\* Machine words are little-endian sequences of 8-bit limbs:
\* uint32_t is 4 limbs, uint64_t is 8 limbs.

\* #define FNV1A_32_PRIME 0x01000193U
FNV1A_32_PRIME == <<147, 1, 0, 1>>
\* #define FNV1A_32_INITIAL_VAL 0x811c9dc5U
FNV1A_32_INITIAL_VAL == <<197, 157, 28, 129>>
\* #define FNV1A_64_PRIME 0x100000001b3ULL
FNV1A_64_PRIME == <<179, 1, 0, 0, 0, 1, 0, 0>>
\* #define FNV1A_64_INITIAL_VAL 0xcbf29ce484222325ULL
FNV1A_64_INITIAL_VAL == <<37, 35, 34, 132, 228, 156, 242, 203>>

\* bitwise exclusive or of two naturals
RECURSIVE BitXor(_, _)
BitXor(a, b) ==
    IF a = 0 THEN b
    ELSE IF b = 0 THEN a
    ELSE (((a % 2) + (b % 2)) % 2) + 2 * BitXor(a \div 2, b \div 2)

\* the byte sign-extended (read through char instead of unsigned char)
XorByteSignExtended(hval, byte) ==
    [i \in DOMAIN hval |->
        IF i = 1 THEN BitXor(hval[1], byte)
        ELSE IF byte >= 128 THEN 255 - hval[i] ELSE hval[i]]

\* hval ^= (uintN_t)byte : the zero-extended byte only meets the low limb
XorByte(hval, byte) == [hval EXCEPT ![1] = BitXor(hval[1], byte)]

\* column k of the schoolbook product: sum of a[i] * p[k - i + 1], i in 1..k
RECURSIVE MulColumn(_, _, _, _)
MulColumn(a, p, k, i) ==
    IF i = 0 THEN 0 ELSE a[i] * p[k - i + 1] + MulColumn(a, p, k, i - 1)

RECURSIVE MulCarry(_, _, _, _)
MulCarry(a, p, k, carry) ==
    IF k > Len(a) THEN <<>>
    ELSE LET t == MulColumn(a, p, k, k) + carry
         IN  <<(t % 256)>> \o MulCarry(a, p, k + 1, t \div 256)

\* hval *= PRIME in unsigned arithmetic of hval's width: the limbs above
\* the width are dropped
MulWrap(hval, prime) == MulCarry(hval, prime, 1, 0)

\* for (; bp < be; bp++) { hval ^= bp[0]; hval *= FNV1A_32_PRIME; }
\* mem is the memory at buf; bp and be are offsets into it
RECURSIVE fnv1a_32_buf_loop(_, _, _, _)
fnv1a_32_buf_loop(mem, bp, be, hval) ==
    IF bp < be
    THEN fnv1a_32_buf_loop(mem, bp + 1, be,
                           MulWrap(XorByte(hval, mem[bp + 1]), FNV1A_32_PRIME))
    ELSE hval

fnv1a_32_buf(mem, len) == fnv1a_32_buf_loop(mem, 0, 0 + len, FNV1A_32_INITIAL_VAL)

\* for (; s[0] != '\0'; s++) { hval ^= s[0]; hval *= FNV1A_32_PRIME; }
RECURSIVE fnv1a_32_str_loop(_, _, _)
fnv1a_32_str_loop(mem, s, hval) ==
    IF mem[s + 1] # 0
    THEN fnv1a_32_str_loop(mem, s + 1,
                           MulWrap(XorByte(hval, mem[s + 1]), FNV1A_32_PRIME))
    ELSE hval

\* hval left zero-initialised instead of starting from the offset basis
fnv1a_32_str_zero_basis(mem) == fnv1a_32_str_loop(mem, 0, <<0, 0, 0, 0>>)

fnv1a_32_str(mem) == fnv1a_32_str_loop(mem, 0, FNV1A_32_INITIAL_VAL)

RECURSIVE fnv1a_64_buf_loop(_, _, _, _)
fnv1a_64_buf_loop(mem, bp, be, hval) ==
    IF bp < be
    THEN fnv1a_64_buf_loop(mem, bp + 1, be,
                           MulWrap(XorByte(hval, mem[bp + 1]), FNV1A_64_PRIME))
    ELSE hval

fnv1a_64_buf(mem, len) == fnv1a_64_buf_loop(mem, 0, 0 + len, FNV1A_64_INITIAL_VAL)

RECURSIVE fnv1a_64_str_loop(_, _, _)
fnv1a_64_str_loop(mem, s, hval) ==
    IF mem[s + 1] # 0
    THEN fnv1a_64_str_loop(mem, s + 1,
                           MulWrap(XorByte(hval, mem[s + 1]), FNV1A_64_PRIME))
    ELSE hval

fnv1a_64_str(mem) == fnv1a_64_str_loop(mem, 0, FNV1A_64_INITIAL_VAL)

\* the caller's memory: the bytes of text followed by a terminating zero
CString(t) == Append(t, 0)

HashInit ==
    /\ exists = FALSE
    /\ fileData = <<>>
    /\ LoadIdle
    /\ text \in SeqsUpTo(HashBytes, MaxHashLen)
    /\ HashIdle

Hash32Buf ==
    /\ r32buf = <<>>
    /\ r32buf' = fnv1a_32_buf(CString(text), Len(text))
    /\ UNCHANGED <<text, r32str, r64buf, r64str>>
    /\ UNCHANGED loadVars

Hash32Str ==
    /\ r32str = <<>>
    /\ r32str' = fnv1a_32_str(CString(text))
    /\ UNCHANGED <<text, r32buf, r64buf, r64str>>
    /\ UNCHANGED loadVars

Hash64Buf ==
    /\ r64buf = <<>>
    /\ r64buf' = fnv1a_64_buf(CString(text), Len(text))
    /\ UNCHANGED <<text, r32buf, r32str, r64str>>
    /\ UNCHANGED loadVars

Hash64Str ==
    /\ r64str = <<>>
    /\ r64str' = fnv1a_64_str(CString(text))
    /\ UNCHANGED <<text, r32buf, r32str, r64buf>>
    /\ UNCHANGED loadVars

HashNext == Hash32Buf \/ Hash32Str \/ Hash64Buf \/ Hash64Str

HashSpec == HashInit /\ [][HashNext]_vars

(* ------------------------- properties: load_file ---------------------- *)

N == Len(fileData)
Range(q) == {q[i] : i \in DOMAIN q}
Made(fn) == \E i \in DOMAIN calls : calls[i].fn = fn
Count(fn) == Cardinality({i \in DOMAIN calls : calls[i].fn = fn})
Succeeded(fn) == \E i \in DOMAIN calls : calls[i].fn = fn /\ calls[i].ok
FailedCall(fn) == \E i \in DOMAIN calls : calls[i].fn = fn /\ ~calls[i].ok
\* some library call other than fclose failed
StepFailed == \E i \in DOMAIN calls : calls[i].fn # "fclose" /\ ~calls[i].ok
Returned == pc = "done"
BufferIntact ==
    /\ writes = {}
    /\ \A i \in DOMAIN outbuf : outbuf[i] = Untouched

\* C1: a fill-mode call on a file of N > 0 bytes in which open, both seeks,
\* tell and read succeed returns N + 1, leaves the file's bytes (zero bytes
\* included) in out[0..N-1] and 0 in out[N], and stores nothing above N.
C1_FillLoadsWholeFile ==
    (Returned /\ out = "buf" /\ N > 0 /\ Made("fopen") /\ ~StepFailed) =>
        /\ ret = N + 1
        /\ \A i \in 0..(N - 1) : outbuf[i] = fileData[i + 1]
        /\ outbuf[N] = 0
        /\ writes \subseteq 0..N
        /\ \A i \in (N + 1)..(BufCap - 1) : outbuf[i] = Untouched

C1_Witness ==
    /\ Returned /\ out = "buf" /\ ~StepFailed
    /\ N >= 2 /\ 0 \in Range(fileData) /\ fileData[N] # 0
    /\ Succeeded("fread") /\ ret = N + 1

\* C2: a query-mode call (out == NULL) never reads file content, never seeks
\* back to the start and never stores to a buffer; when open, seek-to-end
\* and tell succeed on a file of N > 0 bytes it returns N + 1.
C2_QueryReturnsSizeWithoutReading ==
    /\ out = "NULL" => (~Made("fread") /\ ~Made("fseek_set") /\ BufferIntact)
    /\ (Returned /\ out = "NULL" /\ N > 0 /\ Made("fopen") /\ ~StepFailed) =>
           ret = N + 1

C2_Witness ==
    /\ Returned /\ out = "NULL" /\ N > 0 /\ Succeeded("ftell") /\ ret = N + 1

\* C3: on a zero-length file that opens, seeks and tells successfully the
\* call returns 1 in both modes, issues no read, and in fill mode stores
\* exactly out[0] = 0.
C3_EmptyFileReturnsOne ==
    (Returned /\ N = 0 /\ Made("fopen") /\ ~StepFailed) =>
        /\ ret = 1
        /\ ~Made("fread")
        /\ out = "NULL" => BufferIntact
        /\ out = "buf" =>
              /\ writes = {0}
              /\ outbuf[0] = 0
              /\ \A i \in 1..(BufCap - 1) : outbuf[i] = Untouched

C3_Witness ==
    /\ Returned /\ N = 0 /\ Succeeded("ftell") /\ out = "buf" /\ outbuf[0] = 0

\* C4: when fopen fails the call returns a negative value in both modes and
\* stores nothing to the destination buffer.
C4_OpenFailureIsNegativeAndWritesNothing ==
    (Returned /\ FailedCall("fopen")) => (ret < 0 /\ BufferIntact)

C4_Witness ==
    /\ Returned /\ FailedCall("fopen") /\ out = "buf" /\ ~exists /\ ret < 0

\* C5: once fopen has succeeded the handle is open until the call's one
\* fclose, and every return is preceded by exactly one fclose; fclose is
\* never called twice, nor without an open handle.
C5_HandleReleasedExactlyOnce ==
    /\ Count("fclose") <= 1
    /\ Made("fclose") => Succeeded("fopen")
    /\ (Succeeded("fopen") /\ ~Returned) => (file = "open" /\ ~Made("fclose"))
    /\ (Succeeded("fopen") /\ Returned) => (file = "closed" /\ Count("fclose") = 1)

C5_Witness ==
    /\ Returned /\ FailedCall("fseek_set") /\ Count("fclose") = 1 /\ file = "closed"

\* C6: in fill mode, a read that delivers a count other than the file's
\* length makes the call return a negative value with a diagnostic and the
\* handle released; fread is called at most once per call.
C6_ShortReadFails ==
    /\ Count("fread") <= 1
    /\ (Returned /\ FailedCall("fread")) =>
          /\ ret < 0
          /\ ErrorMsg \in Range(stderr)
          /\ file = "closed"

C6_Witness ==
    /\ Returned /\ ret < 0
    /\ \E i \in DOMAIN calls :
          calls[i].fn = "fread" /\ calls[i].res > 0 /\ calls[i].res < N

\* C7: the value returned is fixed by the file's length and the outcomes of
\* the calls other than fclose: -1 when one of them failed, N + 1 otherwise,
\* whether or not fclose failed.
C7_ReturnIndependentOfClose ==
    (Returned /\ Made("fclose")) =>
        ret = (IF StepFailed THEN -1 ELSE N + 1)

C7_Witness ==
    /\ Returned /\ FailedCall("fclose") /\ Succeeded("fread") /\ ret = N + 1

\* C8 as stated: whenever fclose fails, on any exit path, a diagnostic for
\* that failure is on the error stream.
C8_EveryCloseFailureDiagnosed ==
    (Returned /\ FailedCall("fclose")) => WarningMsg \in Range(stderr)

\* C8 amended: a failed fclose is diagnosed exactly on the exit path that
\* follows a complete read; on the other exit paths its result is discarded
\* and no warning is written.  A warning is written only for a failed fclose.
C8_CloseFailureDiagnosedAfterFullRead ==
    /\ WarningMsg \in Range(stderr) => FailedCall("fclose")
    /\ (Returned /\ FailedCall("fclose")) =>
          (WarningMsg \in Range(stderr) <=> Succeeded("fread"))

C8_Witness ==
    /\ Returned /\ FailedCall("fclose") /\ Succeeded("fread")
    /\ stderr = <<WarningMsg>>

(* --------------------------- properties: FNV-1a ----------------------- *)

\* number of bytes of t before its first zero byte (Len(t) if none)
RECURSIVE PrefixLen(_, _)
PrefixLen(t, i) ==
    IF i > Len(t) \/ t[i] = 0 THEN i - 1 ELSE PrefixLen(t, i + 1)

\* C9: the str variants equal the buf variants applied to the bytes before
\* the first zero byte; for a text without a zero byte that is the whole
\* text, so str and buf agree on it.
C9_StrEqualsBufOnPrefix ==
    /\ r32str # <<>> => r32str = fnv1a_32_buf(CString(text), PrefixLen(text, 1))
    /\ r64str # <<>> => r64str = fnv1a_64_buf(CString(text), PrefixLen(text, 1))
    /\ (0 \notin Range(text) /\ r32str # <<>> /\ r32buf # <<>>) => r32str = r32buf
    /\ (0 \notin Range(text) /\ r64str # <<>> /\ r64buf # <<>>) => r64str = r64buf

C9_Witness ==
    /\ text = <<97, 0, 98>>
    /\ r32str # <<>> /\ r64str # <<>> /\ r32buf # <<>> /\ r64buf # <<>>
    /\ r32str # r32buf /\ r64str # r64buf

\* the fold of C10 on 16-bit digits, least significant first
Digits16(h) == [k \in 1..(Len(h) \div 2) |-> h[2 * k - 1] + 256 * h[2 * k]]

\* ((h XOR b) * 0x01000193) mod 2^32, 0x01000193 = 0x0100 * 2^16 + 0x0193
FoldStep32(h, b) ==
    LET x1 == BitXor(h[1], b)
        t1 == x1 * 403
        t2 == h[2] * 403 + x1 * 256 + (t1 \div 65536)
    IN  <<t1 % 65536, t2 % 65536>>

\* ((h XOR b) * 0x100000001b3) mod 2^64, 0x100000001b3 = 0x0100 * 2^32 + 0x01b3
FoldStep64(h, b) ==
    LET x1 == BitXor(h[1], b)
        t1 == x1 * 435
        t2 == h[2] * 435 + (t1 \div 65536)
        t3 == h[3] * 435 + x1 * 256 + (t2 \div 65536)
        t4 == h[4] * 435 + h[2] * 256 + (t3 \div 65536)
    IN  <<t1 % 65536, t2 % 65536, t3 % 65536, t4 % 65536>>

\* h0 = 0x811c9dc5, h(i) = FoldStep32(h(i-1), s[i])
RECURSIVE Fold32(_, _)
Fold32(s, i) ==
    IF i = 0 THEN <<40389, 33052>> ELSE FoldStep32(Fold32(s, i - 1), s[i])

\* h0 = 0xcbf29ce484222325, h(i) = FoldStep64(h(i-1), s[i])
RECURSIVE Fold64(_, _)
Fold64(s, i) ==
    IF i = 0 THEN <<8997, 33826, 40164, 52210>>
    ELSE FoldStep64(Fold64(s, i - 1), s[i])

\* C10: fnv1a_32_buf and fnv1a_64_buf over len bytes (zero bytes included)
\* equal the left fold h(i+1) = ((h(i) XOR s[i]) * prime) mod 2^w from the
\* offset basis: the empty input gives the basis, and fnv1a_64_buf over
\* "abc" gives 0xe71fa2190541574b.
C10_BufIsFnv1aFold ==
    /\ r32buf # <<>> => (Len(r32buf) = 4 /\ Digits16(r32buf) = Fold32(text, Len(text)))
    /\ r64buf # <<>> => (Len(r64buf) = 8 /\ Digits16(r64buf) = Fold64(text, Len(text)))
    /\ (text = <<>> /\ r32buf # <<>>) => r32buf = <<197, 157, 28, 129>>
    /\ (text = <<>> /\ r64buf # <<>>) => r64buf = <<37, 35, 34, 132, 228, 156, 242, 203>>
    /\ (text = <<97, 98, 99>> /\ r64buf # <<>>) =>
           r64buf = <<75, 87, 65, 5, 25, 162, 31, 231>>

C10_Witness ==
    /\ text = <<97, 98, 99>>
    /\ r64buf = <<75, 87, 65, 5, 25, 162, 31, 231>>
    /\ r32buf = <<11, 233, 71, 26>>

====
